---- MODULE Spec2Model ----
(***************************************************************************)
(* Prompt-Debugger (src/app.py): the Streamlit script main() with its      *)
(* session state (analysis history, pending replay selection, widget       *)
(* state) and PromptDebugger.analyze_prompt with its three fallback        *)
(* results.  One action is one user interaction together with the script   *)
(* run it triggers; st.rerun() and the blocking backend call end an action *)
(* and the next action continues from there.                               *)
(***************************************************************************)
EXTENDS Integers, Sequences, FiniteSets, TLC

(***************************************************************************)
(* Bounds of the model.                                                    *)
(***************************************************************************)
\* widget edits (each one a script run) explored in one session
MaxEdits == 8
\* last instant of the wall clock, in clock ticks
MaxTime == 2
\* clock ticks in one second, the resolution of the history timestamp
TicksPerSecond == 2
\* the user picks among the first MaxModelChoice options of the model box
MaxModelChoice == 2
\* largest value the user gives the "Number of exchanges" input
MaxExchanges == 2

(***************************************************************************)
(* Python values.  A str is a sequence of fragments (an f-string is the    *)
(* concatenation of its parts), a dict a function from its keys.           *)
(***************************************************************************)
PyStr(fragments) == [str |-> fragments]
PyList(items) == [list |-> items]
PyDict(items) == [dict |-> items]
PyNum(n) == [num |-> n]
PyBool(b) == [bool |-> b]
PyNone == [none |-> TRUE]

IsStr(v) == "str" \in DOMAIN v
IsDict(v) == "dict" \in DOMAIN v
IsNonEmptyStr(v) == IsStr(v) /\ \E i \in 1..Len(v.str) : v.str[i] # ""

(***************************************************************************)
(* Backend text, as the sequence of its lexical tokens.                    *)
(***************************************************************************)
P(c) == [p |-> c]          \* punctuation { } [ ] : ,
S(s) == [lit |-> s]        \* a quoted string literal
N(n) == [numtok |-> n]     \* a number literal
W(w) == [word |-> w]       \* a bare word: null, true, false or prose

Tok(text, i) == IF i \in 1..Len(text) THEN text[i] ELSE [eof |-> TRUE]
IsP(t, c) == "p" \in DOMAIN t /\ t.p = c

JSONDecodeError == [ok |-> FALSE]
Parsed(v, i) == [ok |-> TRUE, val |-> v, next |-> i]

RECURSIVE ParseValue(_, _)
RECURSIVE ParseMembers(_, _, _)
RECURSIVE ParseElements(_, _, _)

\* "key": value pairs up to the closing brace; a repeated key keeps the last
ParseMembers(text, i, acc) ==
    IF "lit" \notin DOMAIN Tok(text, i) \/ ~IsP(Tok(text, i + 1), ":")
    THEN JSONDecodeError
    ELSE LET r == ParseValue(text, i + 2) IN
         IF ~r.ok THEN JSONDecodeError
         ELSE LET acc2 == (Tok(text, i).lit :> r.val) @@ acc IN
              IF IsP(Tok(text, r.next), ",") THEN ParseMembers(text, r.next + 1, acc2)
              ELSE IF IsP(Tok(text, r.next), "}") THEN Parsed(PyDict(acc2), r.next + 1)
              ELSE JSONDecodeError

ParseElements(text, i, acc) ==
    LET r == ParseValue(text, i) IN
    IF ~r.ok THEN JSONDecodeError
    ELSE IF IsP(Tok(text, r.next), ",") THEN ParseElements(text, r.next + 1, Append(acc, r.val))
    ELSE IF IsP(Tok(text, r.next), "]") THEN Parsed(PyList(Append(acc, r.val)), r.next + 1)
    ELSE JSONDecodeError

ParseValue(text, i) ==
    LET t == Tok(text, i) IN
    IF "lit" \in DOMAIN t THEN Parsed(PyStr(IF t.lit = "" THEN <<>> ELSE <<t.lit>>), i + 1)
    ELSE IF "numtok" \in DOMAIN t THEN Parsed(PyNum(t.numtok), i + 1)
    ELSE IF "word" \in DOMAIN t THEN
        IF t.word = "null" THEN Parsed(PyNone, i + 1)
        ELSE IF t.word = "true" THEN Parsed(PyBool(TRUE), i + 1)
        ELSE IF t.word = "false" THEN Parsed(PyBool(FALSE), i + 1)
        ELSE JSONDecodeError
    ELSE IF IsP(t, "{") THEN
        IF IsP(Tok(text, i + 1), "}") THEN Parsed(PyDict(<<>>), i + 2)
        ELSE ParseMembers(text, i + 1, <<>>)
    ELSE IF IsP(t, "[") THEN
        IF IsP(Tok(text, i + 1), "]") THEN Parsed(PyList(<<>>), i + 2)
        ELSE ParseElements(text, i + 1, <<>>)
    ELSE JSONDecodeError

\* json.loads of a str: one JSON value and nothing after it
json_loads(text) ==
    LET r == ParseValue(text, 1) IN
    IF r.ok /\ r.next = Len(text) + 1 THEN [ok |-> TRUE, val |-> r.val]
    ELSE JSONDecodeError

(***************************************************************************)
(* PromptDebugger.analyze_prompt, given what the backend does to the one   *)
(* request it is sent: the call raises, or it returns a response envelope. *)
(***************************************************************************)
ErrorAdvice ==
    PyList(<<PyStr(<<"The system encountered an error. Please try again.">>),
             PyStr(<<"If the error persists, try simplifying your prompt.">>),
             PyStr(<<"Check your API keys and connection.">>)>>)

ParseAdvice ==
    PyList(<<PyStr(<<"Consider rephrasing your prompt to be more specific.">>),
             PyStr(<<"Try breaking down your request into smaller parts.">>),
             PyStr(<<"Add more context to help the AI understand your intent.">>)>>)

\* the result of both "except Exception as e" handlers
error_fallback(e) ==
    PyDict([error_source_analysis |-> PyStr(<<"An error occurred during analysis: ", e>>),
            prompt_suggestions |-> ErrorAdvice,
            agent_interpretation_change |-> PyStr(<<"Analysis interrupted due to an error.">>)])

\* the result of the "except json.JSONDecodeError" handler
parse_fallback ==
    PyDict([error_source_analysis |->
                PyStr(<<"Unable to parse API response into JSON format. Please try again.">>),
            prompt_suggestions |-> ParseAdvice,
            agent_interpretation_change |->
                PyStr(<<"Unable to analyze agent interpretation due to parsing error.">>)])

IndexErrorText == "list index out of range"
AttributeErrorText == "'ToolUseBlock' object has no attribute 'text'"
TypeErrorText == "the JSON object must be str, bytes or bytearray, not NoneType"

Exc(e) == [exc |-> e]
Value(v) == [value |-> v]
Returned(v) == [returned |-> v]
Propagated(e) == [raised |-> e]

\* response.content[0].text
anthropic_text(response) ==
    IF Len(response.content) = 0 THEN Exc(IndexErrorText)
    ELSE IF "text" \notin DOMAIN response.content[1] THEN Exc(AttributeErrorText)
    ELSE Value(response.content[1])

\* response.choices[0].message.content
openai_text(response) ==
    IF Len(response.choices) = 0 THEN Exc(IndexErrorText)
    ELSE Value(response.choices[1].message.content)

response_text(provider, response) ==
    IF provider = "Anthropic" THEN anthropic_text(response) ELSE openai_text(response)

\* mutant: the test of the parse is inverted
parse_response_inverted(response_content) ==
    IF "text" \notin DOMAIN response_content THEN Exc(TypeErrorText)
    ELSE IF json_loads(response_content.text).ok
         THEN Returned(parse_fallback)
         ELSE Returned(PyNone)

\* json.loads(response_content) inside its try/except json.JSONDecodeError
parse_response(response_content) ==
    IF "text" \notin DOMAIN response_content THEN Exc(TypeErrorText)
    ELSE IF json_loads(response_content.text).ok
         THEN Returned(json_loads(response_content.text).val)
         ELSE Returned(parse_fallback)

\* the body of the outer try: a return value, or the exception that leaves it
try_body(provider, outcome) ==
    IF "raises" \in DOMAIN outcome THEN Exc(outcome.raises)
    ELSE LET payload == response_text(provider, outcome.response) IN
         IF "exc" \in DOMAIN payload THEN Returned(error_fallback(payload.exc))
         ELSE parse_response(payload.value)

\* mutant: no outer "except Exception": what leaves the try body reaches the caller
analyze_prompt_uncaught(provider, outcome) ==
    LET r == try_body(provider, outcome) IN
    IF "exc" \in DOMAIN r THEN Propagated(r.exc) ELSE r

analyze_prompt(provider, outcome) ==
    LET r == try_body(provider, outcome) IN
    IF "exc" \in DOMAIN r THEN Returned(error_fallback(r.exc)) ELSE r

(***************************************************************************)
(* What a backend can answer.  The JSON format the prompt asks for, as a   *)
(* value and as text, for five leaf strings l.                             *)
(***************************************************************************)
DiagnosisValue(l) ==
    PyDict([error_source_analysis |->
                PyDict([system_prompt_error |-> PyStr(<<l[1]>>),
                        behavioral_guidelines_error |-> PyStr(<<l[2]>>)]),
            prompt_suggestions |->
                PyDict([system_prompt_modifications |-> PyStr(<<l[3]>>),
                        behavioral_guidelines_modifications |-> PyStr(<<l[4]>>)]),
            agent_interpretation_change |-> PyStr(<<l[5]>>)])

DiagnosisText(l) ==
    <<P("{"), S("error_source_analysis"), P(":"),
          P("{"), S("system_prompt_error"), P(":"), S(l[1]), P(","),
                  S("behavioral_guidelines_error"), P(":"), S(l[2]), P("}"), P(","),
      S("prompt_suggestions"), P(":"),
          P("{"), S("system_prompt_modifications"), P(":"), S(l[3]), P(","),
                  S("behavioral_guidelines_modifications"), P(":"), S(l[4]), P("}"), P(","),
      S("agent_interpretation_change"), P(":"), S(l[5]), P("}")>>

LeafChoices == {<<"none", "none", "none", "none", "none">>,
                <<"vague role", "no tone rule", "name the role", "add a tone rule", "reads the role first">>}

WellFormedTexts == {DiagnosisText(l) : l \in LeafChoices}

\* truncated JSON, prose-wrapped JSON, plain prose, nothing at all
NonJsonTexts ==
    {SubSeq(DiagnosisText(l), 1, 12) : l \in LeafChoices}
    \cup {<<W("Here"), W("is")>> \o DiagnosisText(l) : l \in LeafChoices}
    \cup {<<W("not"), W("json")>>, <<>>}

\* well-formed JSON that is no Diagnosis
OtherJsonTexts ==
    {<<P("["), S("none"), P("]")>>, <<N(42)>>, <<W("null")>>, <<S("not json")>>,
     <<P("{"), P("}")>>,
     <<P("{"), S("error_source_analysis"), P(":"), S("none"), P("}")>>}

RawTexts == WellFormedTexts \cup NonJsonTexts \cup OtherJsonTexts

TransportErrors == {"Connection error.", "invalid x-api-key"}

TextBlock(text) == [text |-> text]
ToolUseBlock == [tool_use |-> "tool"]

AnthropicResponses ==
    {[content |-> <<>>], [content |-> <<ToolUseBlock>>]}
    \cup {[content |-> <<TextBlock(t)>>] : t \in RawTexts}

OpenAIResponses ==
    {[choices |-> <<>>], [choices |-> <<[message |-> [content |-> PyNone]]>>]}
    \cup {[choices |-> <<[message |-> [content |-> TextBlock(t)]]>>] : t \in RawTexts}

Outcomes(backend) ==
    {[raises |-> e] : e \in TransportErrors}
    \cup {[response |-> r] :
            r \in IF backend = "anthropic_client.messages.create"
                  THEN AnthropicResponses ELSE OpenAIResponses}

(***************************************************************************)
(* The page: main().                                                       *)
(***************************************************************************)
ProviderOptions == <<"Anthropic", "OpenAI">>

model_providers ==
    [Anthropic |-> <<"claude-3-opus-20240229", "claude-3-sonnet-20240229",
                     "claude-3-haiku-20240307", "claude-3-5-haiku-latest",
                     "claude-3-5-sonnet-latest">>,
     OpenAI |-> <<"gpt-4-0125-preview", "gpt-4", "gpt-3.5-turbo", "gpt-4o">>]

BotTypes == <<"Text Bot", "Voice Bot">>

\* what the user types into a text area
Texts == {"", "x"}

TextAreas == {"system_prompt", "behavioral_guidelines", "defective_user_message",
              "defective_agent_response", "defective_description",
              "agent_interpretation", "expected_behavior"}

Absent == [absent |-> TRUE]

VARIABLES
    analysis_history,   \* st.session_state.analysis_history
    selected_history,   \* st.session_state.selected_history, Absent when not set
    widgets,            \* the widget state the browser holds for the page
    now,                \* the wall clock
    edits,              \* widget edits so far
    pc,                 \* "idle", "rerun" (st.rerun() was called), "calling" (backend call)
    sidebar,            \* the number of history entries the sidebar shows
    history_item,       \* this run's history_item, Absent when none was loaded
    current_inputs,     \* this run's current_inputs, Absent when none was built
    issued,             \* the backend requests this run's analyze_prompt has sent
    outcome,            \* what the backend did to the request
    analysis,           \* what analyze_prompt did: Returned(v) or Propagated(e)
    clicked,            \* what this run's Analyze click came to
    display             \* what this run's result view did: Shown(..), Exc(..) or Absent

vars == <<analysis_history, selected_history, widgets, now, edits, pc, sidebar,
          history_item, current_inputs, issued, outcome, analysis, clicked, display>>

(***************************************************************************)
(* The result view: "if analysis:" and the lookups under it.               *)
(***************************************************************************)
\* bool(v)
truthy(v) ==
    IF IsDict(v) THEN DOMAIN v.dict # {}
    ELSE IF "list" \in DOMAIN v THEN Len(v.list) > 0
    ELSE IF IsStr(v) THEN IsNonEmptyStr(v)
    ELSE IF "num" \in DOMAIN v THEN v.num # 0
    ELSE IF "bool" \in DOMAIN v THEN v.bool
    ELSE FALSE

TypeName(v) ==
    IF IsDict(v) THEN "dict"
    ELSE IF "list" \in DOMAIN v THEN "list"
    ELSE IF IsStr(v) THEN "str"
    ELSE IF "num" \in DOMAIN v THEN "int"
    ELSE IF "bool" \in DOMAIN v THEN "bool"
    ELSE "NoneType"

\* AttributeError: '<type>' object has no attribute 'get'
NoGetAttribute(v) == Exc([type |-> TypeName(v), attribute |-> "get"])

\* v.get(key, default)
py_get(v, key, default) ==
    IF IsDict(v)
    THEN Value(IF key \in DOMAIN v.dict THEN v.dict[key] ELSE default)
    ELSE NoGetAttribute(v)

\* v.get(outer, {}).get(inner, default)
nested_get(v, outer, inner, default) ==
    LET o == py_get(v, outer, PyDict(<<>>)) IN
    IF "exc" \in DOMAIN o THEN o ELSE py_get(o.value, inner, default)

Shown(values) == [shown |-> values]

\* the five boxes of the view, in the order the script fills them; the first
\* lookup that raises ends the run
result_view(v) ==
    IF ~truthy(v) THEN Absent
    ELSE LET none == PyStr(<<"No issues found">>)
             keep == PyStr(<<"No modifications needed">>)
             same == PyStr(<<"No changes in interpretation">>)
             b1 == nested_get(v, "error_source_analysis", "system_prompt_error", none)
             b2 == nested_get(v, "error_source_analysis", "behavioral_guidelines_error", none)
             b3 == nested_get(v, "prompt_suggestions", "system_prompt_modifications", keep)
             b4 == nested_get(v, "prompt_suggestions",
                              "behavioral_guidelines_modifications", keep)
             b5 == py_get(v, "agent_interpretation_change", same)
         IN IF "exc" \in DOMAIN b1 THEN b1
            ELSE IF "exc" \in DOMAIN b2 THEN b2
            ELSE IF "exc" \in DOMAIN b3 THEN b3
            ELSE IF "exc" \in DOMAIN b4 THEN b4
            ELSE IF "exc" \in DOMAIN b5 THEN b5
            ELSE Shown(<<b1.value, b2.value, b3.value, b4.value, b5.value>>)

\* the history timestamp: strftime("%Y-%m-%d %H:%M:%S") drops the fraction of a second
strftime(t) == t \div TicksPerSecond

\* the script's bot_type, provider and model: the select boxes', unless a
\* pending selection overwrites them
local(name) ==
    IF selected_history # Absent THEN selected_history[name] ELSE widgets[name]

RECURSIVE exchanges(_, _)
\* the conversation_history the exchange loop builds from the first n exchanges
exchanges(w, n) ==
    IF n = 0 THEN <<>>
    ELSE exchanges(w, n - 1)
         \o (IF w.user_msgs[n] # "" THEN <<[role |-> "user", content |-> w.user_msgs[n]]>>
             ELSE <<>>)
         \o (IF w.agent_msgs[n] # "" THEN <<[role |-> "assistant", content |-> w.agent_msgs[n]]>>
             ELSE <<>>)

\* mutant: behavioral_guidelines is left out of the required fields
all_filled_but_guidelines(w) ==
    /\ w.system_prompt # ""
    /\ w.defective_user_message # ""
    /\ w.defective_agent_response # ""
    /\ w.defective_description # ""
    /\ w.agent_interpretation # ""
    /\ w.expected_behavior # ""

\* the fields the Analyze button requires: "if not all([...])"
all_filled(w) ==
    /\ w.system_prompt # ""
    /\ w.defective_user_message # ""
    /\ w.defective_agent_response # ""
    /\ w.defective_description # ""
    /\ w.agent_interpretation # ""
    /\ w.expected_behavior # ""
    /\ w.behavioral_guidelines # ""

\* the value= argument of a text area: "<stored> if 'selected_history' in
\* st.session_state else ''", evaluated after the pending selection was deleted
value_arg(f) ==
    IF selected_history' # Absent THEN history_item'[f] ELSE ""

\* what a text area returns: its state, unless its default changed from the ""
\* of the run before, which makes it a new widget that starts at its default
text_area(default, state) == IF default # "" THEN default ELSE state

\* the widget state after a run that found the widget state w
rendered(w) ==
    [f \in DOMAIN w |-> IF f \in TextAreas THEN text_area(value_arg(f), w[f]) ELSE w[f]]

\* current_inputs, built at clock reading t from the values the widgets returned
snapshot(t, w) ==
    [timestamp |-> strftime(t),
     bot_type |-> local("bot_type"),
     provider |-> local("provider"),
     model |-> local("model"),
     system_prompt |-> w.system_prompt,
     behavioral_guidelines |-> w.behavioral_guidelines,
     conversation_history |-> exchanges(w, w.num_exchanges),
     defective_user_message |-> w.defective_user_message,
     defective_agent_response |-> w.defective_agent_response,
     defective_description |-> w.defective_description,
     agent_interpretation |-> w.agent_interpretation,
     expected_behavior |-> w.expected_behavior]

Contains(history, entry) == \E i \in 1..Len(history) : history[i] = entry

\* mutant: the "not" of the membership test is lost
add_to_history_inverted(history, entry) ==
    IF Contains(history, entry) THEN Append(history, entry) ELSE history

\* mutant: the new entry is put first
add_to_history_front(history, entry) ==
    IF Contains(history, entry) THEN history ELSE <<entry>> \o history

\* "if current_inputs not in st.session_state.analysis_history: ...append(current_inputs)"
add_to_history(history, entry) ==
    IF Contains(history, entry) THEN history ELSE Append(history, entry)

\* mutant: the two branches are swapped
dispatch_swapped(provider) ==
    IF provider = "Anthropic" THEN "openai.chat.completions.create"
    ELSE "anthropic_client.messages.create"

\* which client call analyze_prompt makes for a provider
dispatch(provider) ==
    IF provider = "Anthropic" THEN "anthropic_client.messages.create"
    ELSE "openai.chat.completions.create"

Init ==
    /\ analysis_history = <<>>
    /\ selected_history = Absent
    /\ widgets = [bot_type |-> BotTypes[1],
                  provider |-> ProviderOptions[1],
                  model |-> model_providers[ProviderOptions[1]][1],
                  num_exchanges |-> 1,
                  user_msgs |-> <<"">>,
                  agent_msgs |-> <<"">>,
                  system_prompt |-> "",
                  behavioral_guidelines |-> "",
                  defective_user_message |-> "",
                  defective_agent_response |-> "",
                  defective_description |-> "",
                  agent_interpretation |-> "",
                  expected_behavior |-> ""]
    /\ now = 0
    /\ edits = 0
    /\ pc = "idle"
    /\ sidebar = 0
    /\ history_item = Absent
    /\ current_inputs = Absent
    /\ issued = <<>>
    /\ outcome = Absent
    /\ analysis = Absent
    /\ clicked = "none"
    /\ display = Absent

\* a script run starts with no locals
FreshLocals ==
    /\ current_inputs' = Absent
    /\ issued' = <<>>
    /\ outcome' = Absent
    /\ analysis' = Absent
    /\ clicked' = "none"
    /\ display' = Absent

\* mutant: the run reads the pending selection and forgets to delete it
QuietRun_keeps_selection(w) ==
    /\ sidebar' = Len(analysis_history)
    /\ history_item' = selected_history
    /\ selected_history' = selected_history
    /\ widgets' = rendered(w)
    /\ FreshLocals
    /\ pc' = "idle"
    /\ UNCHANGED <<analysis_history, now>>

\* a complete script run in which no button is pressed, on widget state w:
\* the sidebar lists the history, a pending selection is taken and deleted
QuietRun(w) ==
    /\ sidebar' = Len(analysis_history)
    /\ history_item' = selected_history
    /\ selected_history' = Absent
    /\ widgets' = rendered(w)
    /\ FreshLocals
    /\ pc' = "idle"
    /\ UNCHANGED <<analysis_history, now>>

\* the user changes one widget, which runs the script
Edit(w) ==
    /\ edits < MaxEdits
    /\ w # widgets
    /\ edits' = edits + 1
    /\ QuietRun(w)

SelectBotType ==
    /\ pc = "idle"
    /\ \E k \in 1..Len(BotTypes) : Edit([widgets EXCEPT !.bot_type = BotTypes[k]])

\* mutant: the model box keeps its value when the provider changes
SelectProvider_keeps_model ==
    \E k \in 1..Len(ProviderOptions) :
        /\ pc = "idle"
        /\ ProviderOptions[k] # widgets.provider
        /\ Edit([widgets EXCEPT !.provider = ProviderOptions[k]])

\* the model box of another provider is another widget: it starts at its first option
SelectProvider ==
    \E k \in 1..Len(ProviderOptions) :
        /\ pc = "idle"
        /\ ProviderOptions[k] # widgets.provider
        /\ Edit([widgets EXCEPT !.provider = ProviderOptions[k],
                                !.model = model_providers[ProviderOptions[k]][1]])

SelectModel ==
    \E k \in 1..MaxModelChoice :
        /\ pc = "idle"
        /\ k <= Len(model_providers[widgets.provider])
        /\ Edit([widgets EXCEPT !.model = model_providers[widgets.provider][k]])

EditText ==
    /\ pc = "idle"
    /\ \E f \in TextAreas, v \in Texts : Edit([widgets EXCEPT ![f] = v])

\* exchange boxes beyond the number are dropped, new ones start empty
SetNumExchanges ==
    /\ pc = "idle"
    /\ \E n \in 1..MaxExchanges :
        Edit([widgets EXCEPT
                !.num_exchanges = n,
                !.user_msgs = [i \in 1..n |-> IF i <= Len(@) THEN @[i] ELSE ""],
                !.agent_msgs = [i \in 1..n |-> IF i <= Len(@) THEN @[i] ELSE ""]])

EditExchange ==
    /\ pc = "idle"
    /\ \E i \in 1..widgets.num_exchanges, v \in Texts, who \in {"user_msgs", "agent_msgs"} :
        Edit([widgets EXCEPT ![who][i] = v])

\* "Load Inputs" on the idx-th entry the sidebar shows: the run stops at st.rerun()
ClickLoad ==
    \E idx \in 1..sidebar :
        /\ pc = "idle"
        /\ idx <= Len(analysis_history)
        /\ selected_history' = analysis_history[idx]
        /\ history_item' = Absent
        /\ FreshLocals
        /\ pc' = "rerun"
        /\ UNCHANGED <<analysis_history, widgets, now, edits, sidebar>>

\* "Clear History": the run stops at st.rerun()
ClickClear ==
    /\ pc = "idle"
    /\ sidebar > 0
    /\ Len(analysis_history) > 0
    /\ analysis_history' = <<>>
    /\ history_item' = Absent
    /\ FreshLocals
    /\ pc' = "rerun"
    /\ UNCHANGED <<selected_history, widgets, now, edits, sidebar>>

\* the run st.rerun() starts
Rerun ==
    /\ pc = "rerun"
    /\ QuietRun(widgets)
    /\ UNCHANGED edits

\* "Analyze Prompt" at clock reading t: up to the backend call analyze_prompt makes
ClickAnalyze ==
    \E t \in now..MaxTime :
        /\ pc = "idle"
        /\ sidebar' = Len(analysis_history)
        /\ history_item' = selected_history
        /\ selected_history' = Absent
        /\ widgets' = rendered(widgets)
        /\ outcome' = Absent
        /\ analysis' = Absent
        /\ display' = Absent
        /\ IF all_filled(widgets')
           THEN /\ now' = t
                /\ current_inputs' = snapshot(t, widgets')
                /\ analysis_history' = add_to_history(analysis_history, snapshot(t, widgets'))
                /\ issued' = <<[to |-> dispatch(local("provider")), model |-> local("model")]>>
                /\ clicked' = "accepted"
                /\ pc' = "calling"
           ELSE /\ t = now
                /\ current_inputs' = Absent
                /\ issued' = <<>>
                /\ clicked' = "rejected"
                /\ pc' = "idle"
                /\ UNCHANGED <<analysis_history, now>>
        /\ UNCHANGED edits

\* the backend call ends, analyze_prompt finishes and main shows what it returned
BackendReturn ==
    /\ pc = "calling"
    /\ \E o \in Outcomes(issued[1].to) :
        /\ outcome' = o
        /\ analysis' = analyze_prompt(current_inputs.provider, o)
        /\ display' = IF "returned" \in DOMAIN analysis'
                      THEN result_view(analysis'.returned) ELSE Absent
        /\ pc' = "idle"
        /\ UNCHANGED <<analysis_history, selected_history, widgets, now, edits, sidebar,
                       history_item, current_inputs, issued, clicked>>

Next ==
    \/ SelectBotType
    \/ SelectProvider
    \/ SelectModel
    \/ EditText
    \/ SetNumExchanges
    \/ EditExchange
    \/ ClickLoad
    \/ ClickClear
    \/ Rerun
    \/ ClickAnalyze
    \/ BackendReturn

Spec == Init /\ [][Next]_vars

(***************************************************************************)
(* Properties.                                                             *)
(***************************************************************************)
\* the Diagnosis schema: three fields, five leaves, every leaf a non-empty string
IsDiagnosis(v) ==
    /\ IsDict(v)
    /\ {"error_source_analysis", "prompt_suggestions", "agent_interpretation_change"}
            \subseteq DOMAIN v.dict
    /\ IsDict(v.dict.error_source_analysis)
    /\ {"system_prompt_error", "behavioral_guidelines_error"}
            \subseteq DOMAIN v.dict.error_source_analysis.dict
    /\ IsNonEmptyStr(v.dict.error_source_analysis.dict.system_prompt_error)
    /\ IsNonEmptyStr(v.dict.error_source_analysis.dict.behavioral_guidelines_error)
    /\ IsDict(v.dict.prompt_suggestions)
    /\ {"system_prompt_modifications", "behavioral_guidelines_modifications"}
            \subseteq DOMAIN v.dict.prompt_suggestions.dict
    /\ IsNonEmptyStr(v.dict.prompt_suggestions.dict.system_prompt_modifications)
    /\ IsNonEmptyStr(v.dict.prompt_suggestions.dict.behavioral_guidelines_modifications)
    /\ IsNonEmptyStr(v.dict.agent_interpretation_change)

\* the backend answered with a text payload / the text it answered with
HasText(o) ==
    /\ "response" \in DOMAIN o
    /\ IF "content" \in DOMAIN o.response
       THEN Len(o.response.content) > 0 /\ "text" \in DOMAIN o.response.content[1]
       ELSE /\ Len(o.response.choices) > 0
            /\ "text" \in DOMAIN o.response.choices[1].message.content

TextOf(o) ==
    IF "content" \in DOMAIN o.response THEN o.response.content[1].text
    ELSE o.response.choices[1].message.content.text

\* the invocation failed: the call raised, or its envelope has no text payload
InvocationFailed(o) == o # Absent /\ ~HasText(o)

Returns == analysis # Absent /\ "returned" \in DOMAIN analysis

\* C1: for every valid request and every backend outcome, analyze_prompt returns
\* a Diagnosis whose five leaf fields are all present and non-empty strings.
C1_AlwaysFullDiagnosis ==
    outcome # Absent => Returns /\ IsDiagnosis(analysis.returned)

\* C2: an Analyze click on a form with at least one empty required field is
\* rejected: no analysis is made and no backend request is issued.
C2_EmptyFieldRejected ==
    (clicked # "none" /\ \E f \in TextAreas : widgets[f] = "")
        => /\ clicked = "rejected"
           /\ pc = "idle"
           /\ issued = <<>>
           /\ current_inputs = Absent
           /\ analysis = Absent

C2_Witness ==
    /\ clicked = "rejected"
    /\ widgets.behavioral_guidelines = ""
    /\ \A f \in TextAreas \ {"behavioral_guidelines"} : widgets[f] # ""
    /\ issued = <<>>

\* C3: when the backend call raises or its envelope has no text payload,
\* analyze_prompt returns (it never raises) a dict whose error_source_analysis
\* is a string carrying the cause: the exception's message.
C3_FailureReturnsCause ==
    InvocationFailed(outcome)
        => /\ Returns
           /\ IsDict(analysis.returned)
           /\ "error_source_analysis" \in DOMAIN analysis.returned.dict
           /\ LET e == analysis.returned.dict.error_source_analysis IN
              /\ IsNonEmptyStr(e)
              /\ \E i \in 1..Len(e.str) :
                    IF "raises" \in DOMAIN outcome THEN e.str[i] = outcome.raises
                    ELSE e.str[i] \in {IndexErrorText, AttributeErrorText, TypeErrorText}

C3_Witness ==
    /\ InvocationFailed(outcome)
    /\ "response" \in DOMAIN outcome
    /\ analysis = Returned(error_fallback(IndexErrorText))

\* C4: for every backend text that is not a well-formed Diagnosis, the result is
\* a Diagnosis whose every field is a non-empty (generic) string, and it is not
\* the value the backend's text denotes.
C4_MalformedYieldsGenericDiagnosis ==
    (outcome # Absent /\ HasText(outcome) /\ TextOf(outcome) \notin WellFormedTexts)
        => /\ Returns
           /\ IsDiagnosis(analysis.returned)
           /\ ~(/\ json_loads(TextOf(outcome)).ok
                /\ analysis.returned = json_loads(TextOf(outcome)).val)

\* a history entry without its timestamp: the request content
Content(entry) == [f \in DOMAIN entry \ {"timestamp"} |-> entry[f]]

\* what the input widgets show after a run
Presented ==
    [bot_type |-> widgets.bot_type,
     provider |-> widgets.provider,
     model |-> widgets.model,
     system_prompt |-> widgets.system_prompt,
     behavioral_guidelines |-> widgets.behavioral_guidelines,
     conversation_history |-> exchanges(widgets, widgets.num_exchanges),
     defective_user_message |-> widgets.defective_user_message,
     defective_agent_response |-> widgets.defective_agent_response,
     defective_description |-> widgets.defective_description,
     agent_interpretation |-> widgets.agent_interpretation,
     expected_behavior |-> widgets.expected_behavior]

\* C5: after Load Inputs on a history entry, the inputs presented for the new
\* request equal the values stored in that entry.
C5_ReplayPresentsStored ==
    (pc = "idle" /\ history_item # Absent) => Presented = Content(history_item)

\* C6: the history holds at most one entry for a request content, whenever the
\* content was submitted.
C6_OneEntryPerContent ==
    \A i, j \in 1..Len(analysis_history) :
        Content(analysis_history[i]) = Content(analysis_history[j]) => i = j

\* C7: from the moment a valid submit dispatches to the backend, and whatever
\* the backend then returns or raises, the history contains the request.
C7_AcceptedIsInHistory ==
    clicked = "accepted"
        => current_inputs # Absent /\ Contains(analysis_history, current_inputs)

C7_Witness ==
    /\ clicked = "accepted"
    /\ outcome # Absent
    /\ HasText(outcome)
    /\ TextOf(outcome) = <<W("not"), W("json")>>
    /\ analysis = Returned(parse_fallback)
    /\ Contains(analysis_history, current_inputs)

\* C8: every step leaves the history as it is, appends one entry at its end, or
\* empties it; setting or taking a replay selection leaves it as it is, and the
\* entry a run has loaded is still in it.
C8_HistoryAppendOrClear ==
    [][/\ \/ analysis_history' = analysis_history
          \/ analysis_history' = <<>>
          \/ /\ Len(analysis_history') = Len(analysis_history) + 1
             /\ SubSeq(analysis_history', 1, Len(analysis_history)) = analysis_history
       /\ selected_history' # selected_history => analysis_history' = analysis_history
       /\ history_item' # Absent => Contains(analysis_history', history_item')]_vars

C8_Witness ==
    /\ pc = "idle"
    /\ Len(analysis_history) >= 2
    /\ history_item = analysis_history[1]
    /\ sidebar = Len(analysis_history)

\* C9: when the backend's text is a well-formed Diagnosis JSON object,
\* analyze_prompt returns the value that JSON denotes.
C9_WellFormedRoundTrip ==
    \A l \in LeafChoices :
        (outcome # Absent /\ HasText(outcome) /\ TextOf(outcome) = DiagnosisText(l))
            => analysis = Returned(DiagnosisValue(l))

C9_Witness ==
    /\ outcome # Absent
    /\ HasText(outcome)
    /\ TextOf(outcome) = DiagnosisText(<<"none", "none", "none", "none", "none">>)
    /\ current_inputs.provider = "OpenAI"
    /\ current_inputs.conversation_history = <<>>
    /\ analysis = Returned(DiagnosisValue(<<"none", "none", "none", "none", "none">>))

\* the backend of a provider
BackendOf(provider) ==
    CASE provider = "Anthropic" -> "anthropic_client.messages.create"
      [] provider = "OpenAI" -> "openai.chat.completions.create"

\* C10: a run's analyze_prompt call has issued at most one backend request, to
\* the backend of the request's provider, also after any outcome.
C10_OneRequestToSelectedBackend ==
    /\ Len(issued) <= 1
    /\ \A i \in 1..Len(issued) :
          current_inputs # Absent /\ issued[i].to = BackendOf(current_inputs.provider)
    /\ clicked = "accepted" => Len(issued) = 1

C10_Witness ==
    /\ outcome # Absent
    /\ "raises" \in DOMAIN outcome
    /\ current_inputs.provider = "OpenAI"
    /\ issued = <<[to |-> "openai.chat.completions.create", model |-> current_inputs.model]>>

\* the provider a backend belongs to
ProviderOf(backend) ==
    CASE backend = "anthropic_client.messages.create" -> "Anthropic"
      [] backend = "openai.chat.completions.create" -> "OpenAI"

ModelSet(provider) ==
    {model_providers[provider][k] : k \in 1..Len(model_providers[provider])}

\* C11: every backend request is issued with a model of the model set published
\* for the provider it is sent to, and the request handed to analyze_prompt
\* names a model of its provider's set.
C11_ModelOfProvider ==
    /\ \A i \in 1..Len(issued) : issued[i].model \in ModelSet(ProviderOf(issued[i].to))
    /\ current_inputs # Absent => current_inputs.model \in ModelSet(current_inputs.provider)

C11_Witness ==
    /\ Len(issued) = 1
    /\ issued[1].to = "openai.chat.completions.create"
    /\ issued[1].model = model_providers["OpenAI"][1]
    /\ outcome # Absent

\* C12: whatever analyze_prompt returns, the result view shows it without
\* raising: no lookup of the view is applied to a value that is no dict.
C12_ViewNeverRaises ==
    (analysis # Absent /\ "returned" \in DOMAIN analysis) => "exc" \notin DOMAIN display

\* C13: a replay selection is pending only between the Load Inputs click and
\* the run st.rerun() starts: once a run is over (or waits for the backend) no
\* selection is pending, and a run in which Analyze was clicked has loaded none.
C13_SelectionConsumedAtOnce ==
    /\ pc # "rerun" => selected_history = Absent
    /\ clicked # "none" => history_item = Absent
    /\ selected_history # Absent => Contains(analysis_history, selected_history)

C13_Witness ==
    /\ pc = "idle"
    /\ history_item # Absent
    /\ selected_history = Absent
    /\ Contains(analysis_history, history_item)

====
